---- MODULE Spec2Model ----
(***************************************************************************)
(* serde_literals: literal codecs (LitStr, LitFloat, LitInt, LitBool,      *)
(* LitChar, and the lit_str!/lit_float! units) and the untagged test enum  *)
(* Items of src/lib.rs, as a state machine of single calls.                *)
(*                                                                         *)
(* A primitive is [kind, val]: what a serializer is asked to write and     *)
(* what a deserializer hands to a visitor.  64-bit integers are scaled to  *)
(* IntBits bits (two's complement kept); floats are IEEE values of the     *)
(* form sign * mag/10, infinities and NaN; strings are sequences of        *)
(* characters; characters are one-character TLA+ strings.                  *)
(***************************************************************************)
EXTENDS Integers, Sequences, FiniteSets, TLC

VARIABLES pc, call, result, sink, sinkAck, tried, selected

vars == <<pc, call, result, sink, sinkAck, tried, selected>>

----------------------------------------------------------------------------
(* Bounds of the model *)

\* width of the model's "64-bit" integers
IntBits == 8
\* longest string built from Alphabet
MaxStrLen == 2

----------------------------------------------------------------------------
(* Values *)

I64_MIN == -(2^(IntBits - 1))
I64_MAX == 2^(IntBits - 1) - 1
U64_MAX == 2^IntBits - 1

I64 == I64_MIN..I64_MAX
U64 == 0..U64_MAX

Alphabet == {"a", "z", "Z"}

auto == <<"a", "u", "t", "o">>
blah == <<"b", "l", "a", "h">>
xyz == <<"x", "y", "z">>
AutoUpper == <<"A", "u", "t", "o">>

Strs == UNION {[1..n -> Alphabet] : n \in 0..MaxStrLen} \cup {auto, blah, xyz, AutoUpper}

Chars == Alphabet

Fin(neg, mag) == [cls |-> "fin", neg |-> neg, mag |-> mag]
NaN == [cls |-> "nan", neg |-> FALSE, mag |-> 0]
Inf(neg) == [cls |-> "inf", neg |-> neg, mag |-> 0]

\* magnitudes in tenths: 0.0, 2.3, 3.0, 3.1, 4.5, 123.0
FloatMags == {0, 23, 30, 31, 45, 1230}

F64 == {NaN} \cup {Inf(s) : s \in BOOLEAN} \cup {Fin(s, m) : s \in BOOLEAN, m \in FloatMags}

StrP(s) == [kind |-> "str", val |-> s]
CharP(c) == [kind |-> "char", val |-> c]
F64P(f) == [kind |-> "f64", val |-> f]
I64P(n) == [kind |-> "i64", val |-> n]
U64P(n) == [kind |-> "u64", val |-> n]
BoolP(b) == [kind |-> "bool", val |-> b]
UnitP == [kind |-> "unit", val |-> "unit"]

Prims == {StrP(s) : s \in Strs} \cup {CharP(c) : c \in Chars}
           \cup {F64P(f) : f \in F64} \cup {I64P(n) : n \in I64}
           \cup {U64P(n) : n \in U64} \cup {BoolP(b) : b \in BOOLEAN} \cup {UnitP}

\* f64 `==`: NaN equals nothing, the two zeros are equal
F64Eq(a, b) ==
    /\ a.cls # "nan"
    /\ b.cls # "nan"
    /\ \/ a.cls = "fin" /\ b.cls = "fin" /\ a.mag = 0 /\ b.mag = 0
       \/ a = b

\* `v as i64` of a u64: the same bits, read as two's complement
U64AsI64(v) == ((v + 2^(IntBits - 1)) % 2^IntBits) - 2^(IntBits - 1)

\* `v as f64` of an integer (exact at this width)
IntAsF64(n) == Fin(n < 0, 10 * (IF n < 0 THEN -n ELSE n))

\* str::starts_with(char)
StartsWith(v, c) == Len(v) > 0 /\ Head(v) = c

----------------------------------------------------------------------------
(* Display, as write!(formatter, "the lit {}", value) renders it *)

Digit(d) == CASE d = 0 -> "0" [] d = 1 -> "1" [] d = 2 -> "2" [] d = 3 -> "3"
              [] d = 4 -> "4" [] d = 5 -> "5" [] d = 6 -> "6" [] d = 7 -> "7"
              [] d = 8 -> "8" [] d = 9 -> "9"

RECURSIVE DisplayNat(_)
DisplayNat(n) == IF n < 10 THEN <<Digit(n)>> ELSE DisplayNat(n \div 10) \o <<Digit(n % 10)>>

DisplayInt(n) == IF n < 0 THEN <<"-">> \o DisplayNat(-n) ELSE DisplayNat(n)

DisplayF64(f) ==
    CASE f.cls = "nan" -> <<"N", "a", "N">>
      [] f.cls = "inf" -> (IF f.neg THEN <<"-">> ELSE <<>>) \o <<"i", "n", "f">>
      [] f.cls = "fin" -> (IF f.neg THEN <<"-">> ELSE <<>>) \o DisplayNat(f.mag \div 10)
                            \o (IF f.mag % 10 = 0 THEN <<>> ELSE <<".", Digit(f.mag % 10)>>)

DisplayBool(b) == IF b THEN <<"t", "r", "u", "e">> ELSE <<"f", "a", "l", "s", "e">>

the_lit == <<"t", "h", "e", " ", "l", "i", "t", " ">>

----------------------------------------------------------------------------
(* Results *)

NoPrim == [kind |-> "none", val |-> "none"]

Ok == [tag |-> "Ok", unexp |-> NoPrim, exp |-> <<>>]

\* de::Error::invalid_value(Unexpected::X(v), &self)
invalid_value(unexp, exp) == [tag |-> "invalid_value", unexp |-> unexp, exp |-> exp]

\* de::Error::invalid_type(Unexpected::X(v), &self): what every visit_* method a
\* visitor does not define returns
invalid_type(unexp, exp) == [tag |-> "invalid_type", unexp |-> unexp, exp |-> exp]

Unexpected(tag, v) == [kind |-> tag, val |-> v]

\* the Unexpected a visit_* default builds from the primitive it was handed
UnexpectedOf(p) ==
    CASE p.kind = "str" -> Unexpected("Str", p.val)
      [] p.kind = "char" -> Unexpected("Str", <<p.val>>)
      [] p.kind = "f64" -> Unexpected("Float", p.val)
      [] p.kind = "i64" -> Unexpected("Signed", p.val)
      [] p.kind = "u64" -> Unexpected("Unsigned", p.val)
      [] p.kind = "bool" -> Unexpected("Bool", p.val)
      [] p.kind = "unit" -> Unexpected("Unit", "unit")

----------------------------------------------------------------------------
(* Literal visitors: expecting() and the visit_* methods each one defines *)

LitStr_expecting(c) == the_lit \o c

\* mutant: the literal matched as a prefix of the delivered string
LitStr_visit_str_prefix(c, s) ==
    IF Len(s) >= Len(c) /\ SubSeq(s, 1, Len(c)) = c
    THEN Ok ELSE invalid_value(Unexpected("Str", s), LitStr_expecting(c))

LitStr_visit_str(c, s) ==
    IF s = c THEN Ok ELSE invalid_value(Unexpected("Str", s), LitStr_expecting(c))

LitFloat_expecting(c) == the_lit \o DisplayF64(c)

\* mutant: the floats compared by their bits
LitFloat_visit_f64_bits(c, v) ==
    IF v = c THEN Ok ELSE invalid_value(Unexpected("Float", v), LitFloat_expecting(c))

LitFloat_visit_f64(c, v) ==
    IF F64Eq(v, c) THEN Ok ELSE invalid_value(Unexpected("Float", v), LitFloat_expecting(c))

LitInt_expecting(N) == the_lit \o DisplayInt(N)

LitInt_visit_i64(N, v) ==
    IF v = N THEN Ok ELSE invalid_value(Unexpected("Signed", v), LitInt_expecting(N))

\* mutant: an unsigned candidate out of the signed range is refused
LitInt_visit_u64_checked(N, v) ==
    IF v <= I64_MAX /\ v = N
    THEN Ok ELSE invalid_value(Unexpected("Unsigned", v), LitInt_expecting(N))

\* mutant: the rejected unsigned candidate reported as the signed value it was cast to
LitInt_visit_u64_signed_report(N, v) ==
    IF U64AsI64(v) = N
    THEN Ok ELSE invalid_value(Unexpected("Signed", U64AsI64(v)), LitInt_expecting(N))

LitInt_visit_u64(N, v) ==
    IF U64AsI64(v) = N THEN Ok ELSE invalid_value(Unexpected("Unsigned", v), LitInt_expecting(N))

LitBool_expecting(B) == the_lit \o DisplayBool(B)

LitBool_visit_bool(B, v) ==
    IF v = B THEN Ok ELSE invalid_value(Unexpected("Bool", v), LitBool_expecting(B))

LitChar_expecting(C) == the_lit \o <<C>>

\* mutant: the whole delivered string must be the character
LitChar_visit_str_exact(C, v) ==
    IF v = <<C>> THEN Ok ELSE invalid_value(Unexpected("Str", v), LitChar_expecting(C))

LitChar_visit_str(C, v) ==
    IF StartsWith(v, C) THEN Ok ELSE invalid_value(Unexpected("Str", v), LitChar_expecting(C))

(* A visitor handed the primitive p: the visit_* method of p's kind.  A method *)
(* the impl does not define is the trait's default: visit_char forwards to     *)
(* visit_str with the character as a one-character string, every other one     *)
(* returns invalid_type.                                                       *)

LitStrVisitor(c, p) ==
    CASE p.kind = "str" -> LitStr_visit_str(c, p.val)
      [] p.kind = "char" -> LitStr_visit_str(c, <<p.val>>)
      [] OTHER -> invalid_type(UnexpectedOf(p), LitStr_expecting(c))

\* mutant: the float visitor also defines visit_i64 / visit_u64, comparing `v as f64`
LitFloatVisitor_ints(c, p) ==
    CASE p.kind = "f64" -> LitFloat_visit_f64(c, p.val)
      [] p.kind \in {"i64", "u64"} -> LitFloat_visit_f64(c, IntAsF64(p.val))
      [] OTHER -> invalid_type(UnexpectedOf(p), LitFloat_expecting(c))

LitFloatVisitor(c, p) ==
    CASE p.kind = "f64" -> LitFloat_visit_f64(c, p.val)
      [] OTHER -> invalid_type(UnexpectedOf(p), LitFloat_expecting(c))

\* mutant: the integer visitor defines visit_i64 only
LitIntVisitor_no_u64(N, p) ==
    CASE p.kind = "i64" -> LitInt_visit_i64(N, p.val)
      [] OTHER -> invalid_type(UnexpectedOf(p), LitInt_expecting(N))

LitIntVisitor(N, p) ==
    CASE p.kind = "i64" -> LitInt_visit_i64(N, p.val)
      [] p.kind = "u64" -> LitInt_visit_u64(N, p.val)
      [] OTHER -> invalid_type(UnexpectedOf(p), LitInt_expecting(N))

LitBoolVisitor(B, p) ==
    CASE p.kind = "bool" -> LitBool_visit_bool(B, p.val)
      [] OTHER -> invalid_type(UnexpectedOf(p), LitBool_expecting(B))

LitCharVisitor(C, p) ==
    CASE p.kind = "str" -> LitChar_visit_str(C, p.val)
      [] p.kind = "char" -> LitChar_visit_str(C, <<p.val>>)
      [] OTHER -> invalid_type(UnexpectedOf(p), LitChar_expecting(C))

----------------------------------------------------------------------------
(* Literal codecs: deserialize hands the deserializer's next primitive p to   *)
(* the visitor (deserialize_str / _f64 / _any / _bool / _char are hints: a    *)
(* self-describing deserializer calls the visit_* method of what it holds);   *)
(* serialize is the one primitive the serializer is asked to write.           *)

lit_str_deserialize(val, p) == LitStrVisitor(val, p)
lit_str_serialize(val) == StrP(val)

lit_float_deserialize(val, p) == LitFloatVisitor(val, p)
lit_float_serialize(val) == F64P(val)

LitInt_deserialize(N, p) == LitIntVisitor(N, p)
\* mutant: the constant written unsigned
LitInt_serialize_u64(N) == U64P(N % 2^IntBits)
LitInt_serialize(N) == I64P(N)

LitBool_deserialize(B, p) == LitBoolVisitor(B, p)
LitBool_serialize(B) == BoolP(B)

LitChar_deserialize(C, p) == LitCharVisitor(C, p)
LitChar_serialize(C) == CharP(C)

Codec(kind, lit) == [kind |-> kind, lit |-> lit]

StrCodecs == {Codec("str", s) : s \in Strs}
FloatCodecs == {Codec("float", f) : f \in F64}
IntCodecs == {Codec("int", n) : n \in I64}
BoolCodecs == {Codec("bool", b) : b \in BOOLEAN}
CharCodecs == {Codec("char", c) : c \in Chars}
Codecs == StrCodecs \cup FloatCodecs \cup IntCodecs \cup BoolCodecs \cup CharCodecs

deserialize(codec, p) ==
    CASE codec.kind = "str" -> lit_str_deserialize(codec.lit, p)
      [] codec.kind = "float" -> lit_float_deserialize(codec.lit, p)
      [] codec.kind = "int" -> LitInt_deserialize(codec.lit, p)
      [] codec.kind = "bool" -> LitBool_deserialize(codec.lit, p)
      [] codec.kind = "char" -> LitChar_deserialize(codec.lit, p)

serialize(codec) ==
    CASE codec.kind = "str" -> lit_str_serialize(codec.lit)
      [] codec.kind = "float" -> lit_float_serialize(codec.lit)
      [] codec.kind = "int" -> LitInt_serialize(codec.lit)
      [] codec.kind = "bool" -> LitBool_serialize(codec.lit)
      [] codec.kind = "char" -> LitChar_serialize(codec.lit)

(* The forms in which a deserializer reading the written primitive back can   *)
(* present it: as written, or in the wire form of the tests' format, where a  *)
(* character is a one-character string and a non-negative integer is          *)
(* presented unsigned.                                                        *)
Deliver(p) ==
    CASE p.kind = "char" -> {p, StrP(<<p.val>>)}
      [] p.kind = "i64" -> IF p.val >= 0 THEN {p, U64P(p.val)} ELSE {p}
      [] OTHER -> {p}

----------------------------------------------------------------------------
(* The untagged enum Items of the test module *)

NoFloat == [cls |-> "none", neg |-> FALSE, mag |-> 0]

Item(variant, payload) == [variant |-> variant, payload |-> payload]

NoItem == Item("none", NoFloat)

f64_codec == Codec("f64", "f64")

\* mutant: the generic float arm declared before the number literals
ItemsArms_number_first ==
    << [variant |-> "Auto", codec |-> Codec("str", auto)],
       [variant |-> "Blah", codec |-> Codec("str", blah)],
       [variant |-> "Number", codec |-> f64_codec],
       [variant |-> "Num123", codec |-> Codec("int", 123)],
       [variant |-> "Num3Dot1", codec |-> Codec("float", Fin(FALSE, 31))],
       [variant |-> "True", codec |-> Codec("bool", TRUE)],
       [variant |-> "False", codec |-> Codec("bool", FALSE)],
       [variant |-> "SingleChar", codec |-> Codec("char", "z")] >>

\* the arms in declaration order, each with the codec its `with` attribute names
ItemsArms ==
    << [variant |-> "Auto", codec |-> Codec("str", auto)],
       [variant |-> "Blah", codec |-> Codec("str", blah)],
       [variant |-> "Num123", codec |-> Codec("int", 123)],
       [variant |-> "Num3Dot1", codec |-> Codec("float", Fin(FALSE, 31))],
       [variant |-> "Number", codec |-> f64_codec],
       [variant |-> "True", codec |-> Codec("bool", TRUE)],
       [variant |-> "False", codec |-> Codec("bool", FALSE)],
       [variant |-> "SingleChar", codec |-> Codec("char", "z")] >>

UnitVariants == {"Auto", "Blah", "Num123", "Num3Dot1", "True", "False", "SingleChar"}

ItemsValues == {Item(v, NoFloat) : v \in UnitVariants}
                 \cup {Item("Number", f) : f \in F64}

f64_expecting == <<"f", "6", "4">>

\* the newtype arm Number(f64): f64's own Deserialize takes any number
f64_deserialize(p) ==
    CASE p.kind \in {"f64", "i64", "u64"} -> Ok
      [] OTHER -> invalid_type(UnexpectedOf(p), f64_expecting)

f64_value(p) == IF p.kind = "f64" THEN p.val ELSE IntAsF64(p.val)

ArmDeserialize(arm, content) ==
    IF arm.codec = f64_codec THEN f64_deserialize(content) ELSE deserialize(arm.codec, content)

ArmValue(arm, content) ==
    IF arm.codec = f64_codec THEN Item(arm.variant, f64_value(content)) ELSE Item(arm.variant, NoFloat)

\* the derived untagged Deserialize: the buffered content is offered to arm i,
\* then to the arms after it, until one returns Ok
RECURSIVE TryArms(_, _)
TryArms(content, i) ==
    IF i > Len(ItemsArms)
    THEN [value |-> NoItem, tried |-> <<>>]
    ELSE LET r == ArmDeserialize(ItemsArms[i], content)
             t == [variant |-> ItemsArms[i].variant, tag |-> r.tag]
         IN  IF r.tag = "Ok"
             THEN [value |-> ArmValue(ItemsArms[i], content), tried |-> <<t>>]
             ELSE LET rest == TryArms(content, i + 1)
                  IN  [value |-> rest.value, tried |-> <<t>> \o rest.tried]

Items_deserialize(content) == TryArms(content, 1)

no_variant == [tag |-> "no_variant", unexp |-> NoPrim, exp |-> <<>>]

ArmOf(variant) == ItemsArms[CHOOSE i \in 1..Len(ItemsArms) : ItemsArms[i].variant = variant]

\* the derived Serialize: the variant's own codec writes; Number(x) writes x
Items_serialize(item) ==
    IF item.variant = "Number" THEN F64P(item.payload) ELSE serialize(ArmOf(item.variant).codec)

----------------------------------------------------------------------------
(* Calls.  A call starts from "idle"; "done" holds the call and what it       *)
(* returned until the caller drops them; after a serialize whose sink took    *)
(* the write ("written"), the same codec may deserialize what was written.    *)

NoCodec == Codec("none", "none")
ItemsCodec == Codec("Items", "Items")

Call(op, codec, cand, item, written) ==
    [op |-> op, codec |-> codec, cand |-> cand, item |-> item, written |-> written]

NoCall == Call("none", NoCodec, NoPrim, NoItem, FALSE)

\* what a serializer may answer to a write
SinkAcks == {"ok", "io_error"}

SinkResult(ack) == [tag |-> ack, unexp |-> NoPrim, exp |-> <<>>]

Init ==
    /\ pc = "idle"
    /\ call = NoCall
    /\ result = Ok
    /\ sink = <<>>
    /\ sinkAck = "none"
    /\ tried = <<>>
    /\ selected = NoItem

\* one deserialize call of a literal codec on the primitive p
DeserializeCall(codec, p, written) ==
    /\ call' = Call("deserialize", codec, p, NoItem, written)
    /\ result' = deserialize(codec, p)
    /\ pc' = "done"
    /\ sink' = <<>>
    /\ sinkAck' = "none"
    /\ UNCHANGED <<tried, selected>>

\* one serialize call of a literal codec into a sink that answers ack
SerializeCall(codec, ack) ==
    /\ call' = Call("serialize", codec, NoPrim, NoItem, FALSE)
    /\ sink' = <<serialize(codec)>>
    /\ sinkAck' = ack
    /\ result' = SinkResult(ack)
    /\ pc' = IF ack = "ok" THEN "written" ELSE "done"
    /\ UNCHANGED <<tried, selected>>

LitStrDeserialize ==
    /\ pc = "idle"
    /\ \E codec \in StrCodecs, p \in Prims : DeserializeCall(codec, p, FALSE)

LitFloatDeserialize ==
    /\ pc = "idle"
    /\ \E codec \in FloatCodecs, p \in Prims : DeserializeCall(codec, p, FALSE)

LitIntDeserialize ==
    /\ pc = "idle"
    /\ \E codec \in IntCodecs, p \in Prims : DeserializeCall(codec, p, FALSE)

LitBoolDeserialize ==
    /\ pc = "idle"
    /\ \E codec \in BoolCodecs, p \in Prims : DeserializeCall(codec, p, FALSE)

LitCharDeserialize ==
    /\ pc = "idle"
    /\ \E codec \in CharCodecs, p \in Prims : DeserializeCall(codec, p, FALSE)

Serialize ==
    /\ pc = "idle"
    /\ \E codec \in Codecs, ack \in SinkAcks : SerializeCall(codec, ack)

\* the codec that wrote reads back what it wrote, in a form the deserializer
\* may present it in
DeserializeWritten ==
    /\ pc = "written"
    /\ call.codec # ItemsCodec
    /\ \E p \in Deliver(sink[1]) : DeserializeCall(call.codec, p, TRUE)

ItemsDeserialize ==
    /\ pc = "idle"
    /\ \E content \in Prims :
         LET t == Items_deserialize(content)
         IN  /\ call' = Call("deserialize", ItemsCodec, content, NoItem, FALSE)
             /\ tried' = t.tried
             /\ selected' = t.value
             /\ result' = IF t.value = NoItem THEN no_variant ELSE Ok
    /\ pc' = "done"
    /\ sink' = <<>>
    /\ sinkAck' = "none"

ItemsSerialize ==
    /\ pc = "idle"
    /\ \E item \in ItemsValues, ack \in SinkAcks :
         /\ call' = Call("serialize", ItemsCodec, NoPrim, item, FALSE)
         /\ sink' = <<Items_serialize(item)>>
         /\ sinkAck' = ack
         /\ result' = SinkResult(ack)
    /\ pc' = "done"
    /\ UNCHANGED <<tried, selected>>

\* the caller drops the call and its result
Return ==
    /\ pc \in {"done", "written"}
    /\ pc' = "idle"
    /\ call' = NoCall
    /\ result' = Ok
    /\ sink' = <<>>
    /\ sinkAck' = "none"
    /\ tried' = <<>>
    /\ selected' = NoItem

Next ==
    \/ LitStrDeserialize
    \/ LitFloatDeserialize
    \/ LitIntDeserialize
    \/ LitBoolDeserialize
    \/ LitCharDeserialize
    \/ Serialize
    \/ DeserializeWritten
    \/ ItemsDeserialize
    \/ ItemsSerialize
    \/ Return

Spec == Init /\ [][Next]_vars

----------------------------------------------------------------------------
(* Properties *)

\* a literal codec's deserialize call has returned
LitDecoded == pc = "done" /\ call.op = "deserialize" /\ call.codec # ItemsCodec

\* a literal codec's serialize call has returned
LitEncoded == pc \in {"done", "written"} /\ call.op = "serialize" /\ call.codec # ItemsCodec

IsNaNCodec(codec) == codec.kind = "float" /\ codec.lit.cls = "nan"

(* C1, as stated: whatever the bound constant, a codec's deserialize of the  *)
(* primitive its own serialize wrote (as written, or in its wire form)       *)
(* returns Ok.                                                               *)
C1_RoundTripEveryConstant ==
    (LitDecoded /\ call.written) => result = Ok

(* C1, amended: for every bound constant but a NaN float, deserialize of     *)
(* what serialize wrote returns Ok, both as written and in its wire form; a  *)
(* float codec bound to NaN rejects what it wrote with invalid_value.        *)
C1_RoundTrip ==
    (LitDecoded /\ call.written) =>
        /\ call.cand \in Deliver(serialize(call.codec))
        /\ ~IsNaNCodec(call.codec) => result = Ok
        /\ IsNaNCodec(call.codec) => result.tag = "invalid_value"

C1_Witness ==
    /\ LitDecoded
    /\ call.written
    /\ call.codec = Codec("int", 123)
    /\ call.cand = U64P(123)
    /\ result = Ok

\* the candidate, read as a string
AsStr(p) == IF p.kind = "char" THEN <<p.val>> ELSE p.val

\* the candidate's value is the bound constant
StrictlyEqual(codec, p) ==
    CASE codec.kind = "str" -> p.kind \in {"str", "char"} /\ AsStr(p) = codec.lit
      [] codec.kind = "float" -> p.kind = "f64" /\ F64Eq(p.val, codec.lit)
      [] codec.kind = "int" -> p.kind \in {"i64", "u64"} /\ p.val = codec.lit
      [] codec.kind = "bool" -> p.kind = "bool" /\ p.val = codec.lit
      [] codec.kind = "char" -> p.kind \in {"str", "char"} /\ AsStr(p) = <<codec.lit>>

(* C2, as stated: every codec kind accepts a candidate only if its value     *)
(* equals the bound constant.                                                *)
C2_StrictEqualityEveryKind ==
    (LitDecoded /\ result = Ok) => StrictlyEqual(call.codec, call.cand)

(* C2, amended: a string, float or boolean codec, and an integer codec given *)
(* a signed candidate, accepts only a candidate equal to its constant; an    *)
(* integer codec accepts an unsigned candidate only if the candidate or the  *)
(* candidate minus 2^width is its constant; a character codec accepts only a *)
(* string whose first character is its constant.                             *)
C2_Acceptance ==
    (LitDecoded /\ result = Ok) =>
        LET codec == call.codec
            p == call.cand
        IN  CASE codec.kind = "int" /\ p.kind = "u64" ->
                   p.val = codec.lit \/ p.val - 2^IntBits = codec.lit
              [] codec.kind = "char" ->
                   /\ p.kind \in {"str", "char"}
                   /\ Len(AsStr(p)) >= 1
                   /\ AsStr(p)[1] = codec.lit
              [] OTHER -> StrictlyEqual(codec, p)

C2_Witness ==
    /\ LitDecoded
    /\ result = Ok
    /\ call.codec = Codec("int", -(2^(IntBits - 1)))
    /\ call.cand = U64P(2^(IntBits - 1))

SameKind(codec, p) ==
    \/ codec.kind = "str" /\ p.kind = "str"
    \/ codec.kind = "float" /\ p.kind = "f64"
    \/ codec.kind = "bool" /\ p.kind = "bool"

(* C3: a string, float or boolean codec given a candidate v of its own kind  *)
(* returns Ok iff v == C (f64 `==` for floats), and otherwise invalid_value  *)
(* carrying v.                                                               *)
C3_Exactness ==
    (LitDecoded /\ SameKind(call.codec, call.cand)) =>
        LET C == call.codec.lit
            v == call.cand.val
            eq == IF call.codec.kind = "float"
                  THEN v.cls # "nan" /\ C.cls # "nan"
                         /\ (v = C \/ (v.cls = "fin" /\ C.cls = "fin" /\ v.mag = 0 /\ C.mag = 0))
                  ELSE v = C
        IN  /\ result = Ok <=> eq
            /\ ~eq => /\ result.tag = "invalid_value"
                      /\ result.unexp.val = v
                      /\ result.unexp.kind =
                           (CASE call.cand.kind = "str" -> "Str"
                              [] call.cand.kind = "f64" -> "Float"
                              [] call.cand.kind = "bool" -> "Bool")

C3_Witness ==
    /\ LitDecoded
    /\ call.codec = Codec("float", Fin(FALSE, 0))
    /\ call.cand = F64P(Fin(TRUE, 0))
    /\ result = Ok

(* C4: an integer codec bound to N returns Ok for a signed candidate v iff   *)
(* v = N, and for an unsigned candidate u iff u read as two's complement (u  *)
(* below 2^(width-1), else u - 2^width) is N.                                *)
C4_IntegerCrossKind ==
    (LitDecoded /\ call.codec.kind = "int") =>
        LET N == call.codec.lit
            v == call.cand.val
        IN  /\ call.cand.kind = "i64" => (result = Ok <=> v = N)
            /\ call.cand.kind = "u64" =>
                 (result = Ok <=> (IF v < 2^(IntBits - 1) THEN v ELSE v - 2^IntBits) = N)

C4_Witness ==
    /\ LitDecoded
    /\ call.codec = Codec("int", -1)
    /\ call.cand = U64P(2^IntBits - 1)
    /\ result = Ok

ItemsDecoded == pc = "done" /\ call.op = "deserialize" /\ call.codec = ItemsCodec

DeclaredOrder ==
    <<"Auto", "Blah", "Num123", "Num3Dot1", "Number", "True", "False", "SingleChar">>

Is3Dot1(f) == f = Fin(FALSE, 31)

(* C5: the untagged enum offers the content to its arms in declaration       *)
(* order, goes on after every arm that fails and selects the first arm that  *)
(* returns Ok; "auto", "blah", 123, 3.1, true, false and "z" select their    *)
(* literal arms and every other number selects Number.                       *)
C5_UntaggedDisambiguation ==
    ItemsDecoded =>
        LET n == Len(tried)
            p == call.cand
        IN  /\ n \in 1..Len(DeclaredOrder)
            /\ \A i \in 1..n : tried[i].variant = DeclaredOrder[i]
            /\ \A i \in 1..n : tried[i].tag = ArmDeserialize(ArmOf(DeclaredOrder[i]), p).tag
            /\ \A i \in 1..(n - 1) : tried[i].tag # "Ok"
            /\ IF tried[n].tag = "Ok"
               THEN selected.variant = DeclaredOrder[n] /\ result = Ok
               ELSE n = Len(DeclaredOrder) /\ selected = NoItem /\ result.tag = "no_variant"
            /\ p = StrP(auto) => selected = Item("Auto", NoFloat)
            /\ p = StrP(blah) => selected = Item("Blah", NoFloat)
            /\ p \in {I64P(123), U64P(123)} => selected = Item("Num123", NoFloat)
            /\ (p.kind = "f64" /\ Is3Dot1(p.val)) => selected = Item("Num3Dot1", NoFloat)
            /\ (p.kind = "f64" /\ ~Is3Dot1(p.val)) => selected = Item("Number", p.val)
            /\ (p.kind \in {"i64", "u64"} /\ p.val # 123) => selected.variant = "Number"
            /\ p = BoolP(TRUE) => selected = Item("True", NoFloat)
            /\ p = BoolP(FALSE) => selected = Item("False", NoFloat)
            /\ p = StrP(<<"z">>) => selected = Item("SingleChar", NoFloat)

C5_Witness ==
    /\ ItemsDecoded
    /\ call.cand = U64P(123)
    /\ Len(tried) = 3
    /\ tried[1].tag = "invalid_type"
    /\ selected = Item("Num123", NoFloat)

(* C6: a character codec bound to C, given the string s, returns Ok iff s is *)
(* not empty and its first character is C; otherwise invalid_value carrying  *)
(* s.                                                                        *)
C6_CharacterPrefix ==
    (LitDecoded /\ call.codec.kind = "char" /\ call.cand.kind = "str") =>
        LET s == call.cand.val
            first == Len(s) >= 1 /\ s[1] = call.codec.lit
        IN  /\ result = Ok <=> first
            /\ ~first => /\ result.tag = "invalid_value"
                         /\ result.unexp = [kind |-> "Str", val |-> s]

C6_Witness ==
    /\ LitDecoded
    /\ call.codec = Codec("char", "z")
    /\ call.cand = StrP(<<"z", "z">>)
    /\ result = Ok

ItemsEncoded == pc = "done" /\ call.op = "serialize" /\ call.codec = ItemsCodec

(* C7: serialize asks the sink for exactly one write, of the bound constant  *)
(* in the primitive kind of the codec (an integer always signed), and        *)
(* returns the sink's answer; the test enum's unit variants write "auto",    *)
(* "blah", 123, 3.1, true, false and the character z.                        *)
C7_EncodeWritesConstant ==
    /\ LitEncoded =>
         /\ Len(sink) = 1
         /\ sink[1].val = call.codec.lit
         /\ sink[1].kind = (CASE call.codec.kind = "str" -> "str"
                              [] call.codec.kind = "float" -> "f64"
                              [] call.codec.kind = "int" -> "i64"
                              [] call.codec.kind = "bool" -> "bool"
                              [] call.codec.kind = "char" -> "char")
         /\ result.tag = sinkAck
    /\ ItemsEncoded =>
         /\ Len(sink) = 1
         /\ result.tag = sinkAck
         /\ sink[1] = (CASE call.item.variant = "Auto" -> [kind |-> "str", val |-> auto]
                         [] call.item.variant = "Blah" -> [kind |-> "str", val |-> blah]
                         [] call.item.variant = "Num123" -> [kind |-> "i64", val |-> 123]
                         [] call.item.variant = "Num3Dot1" -> [kind |-> "f64", val |-> Fin(FALSE, 31)]
                         [] call.item.variant = "True" -> [kind |-> "bool", val |-> TRUE]
                         [] call.item.variant = "False" -> [kind |-> "bool", val |-> FALSE]
                         [] call.item.variant = "SingleChar" -> [kind |-> "char", val |-> "z"]
                         [] call.item.variant = "Number" -> [kind |-> "f64", val |-> call.item.payload])

C7_Witness ==
    /\ ItemsEncoded
    /\ call.item = Item("Num123", NoFloat)
    /\ sink = <<I64P(123)>>
    /\ sinkAck = "ok"
    /\ result.tag = "ok"

\* the kinds of primitive whose visit_* method a literal visitor takes
Handles(codec, p) ==
    CASE codec.kind = "str" -> p.kind \in {"str", "char"}
      [] codec.kind = "float" -> p.kind = "f64"
      [] codec.kind = "int" -> p.kind \in {"i64", "u64"}
      [] codec.kind = "bool" -> p.kind = "bool"
      [] codec.kind = "char" -> p.kind \in {"str", "char"}

lit_auto == <<"t", "h", "e", " ", "l", "i", "t", " ", "a", "u", "t", "o">>
lit_123 == <<"t", "h", "e", " ", "l", "i", "t", " ", "1", "2", "3">>
lit_minus_1 == <<"t", "h", "e", " ", "l", "i", "t", " ", "-", "1">>
lit_3_1 == <<"t", "h", "e", " ", "l", "i", "t", " ", "3", ".", "1">>
lit_true == <<"t", "h", "e", " ", "l", "i", "t", " ", "t", "r", "u", "e">>
lit_z == <<"t", "h", "e", " ", "l", "i", "t", " ", "z">>

(* C8: a literal visitor that rejects a candidate of a kind it takes returns *)
(* invalid_value carrying the candidate under the tag of the kind it was     *)
(* presented as (an unsigned candidate as Unsigned with its own value, a     *)
(* signed one as Signed) and the description "the lit <constant>".           *)
C8_MismatchContents ==
    (LitDecoded /\ Handles(call.codec, call.cand) /\ result # Ok) =>
        LET codec == call.codec
            p == call.cand
        IN  /\ result.tag = "invalid_value"
            /\ result.unexp =
                 (CASE p.kind = "str" -> [kind |-> "Str", val |-> p.val]
                    [] p.kind = "char" -> [kind |-> "Str", val |-> <<p.val>>]
                    [] p.kind = "f64" -> [kind |-> "Float", val |-> p.val]
                    [] p.kind = "i64" -> [kind |-> "Signed", val |-> p.val]
                    [] p.kind = "u64" -> [kind |-> "Unsigned", val |-> p.val]
                    [] p.kind = "bool" -> [kind |-> "Bool", val |-> p.val])
            /\ Len(result.exp) >= Len(the_lit)
            /\ SubSeq(result.exp, 1, Len(the_lit)) = the_lit
            /\ codec.kind = "str" => SubSeq(result.exp, Len(the_lit) + 1, Len(result.exp)) = codec.lit
            /\ codec.kind = "char" => SubSeq(result.exp, Len(the_lit) + 1, Len(result.exp)) = <<codec.lit>>
            /\ codec = Codec("str", auto) => result.exp = lit_auto
            /\ codec = Codec("int", 123) => result.exp = lit_123
            /\ codec = Codec("int", -1) => result.exp = lit_minus_1
            /\ codec = Codec("float", Fin(FALSE, 31)) => result.exp = lit_3_1
            /\ codec = Codec("bool", TRUE) => result.exp = lit_true
            /\ codec = Codec("char", "z") => result.exp = lit_z
            /\ (codec = Codec("str", auto) /\ p = StrP(xyz)) =>
                 result = [tag |-> "invalid_value", unexp |-> [kind |-> "Str", val |-> xyz],
                           exp |-> lit_auto]

C8_Witness ==
    /\ LitDecoded
    /\ call.codec = Codec("int", 123)
    /\ call.cand = U64P(2^IntBits - 1)
    /\ result.tag = "invalid_value"
    /\ result.unexp = [kind |-> "Unsigned", val |-> 2^IntBits - 1]

(* C10: a literal codec handed a primitive of a kind its visitor does not    *)
(* take returns invalid_type, never Ok and never invalid_value, whatever the *)
(* value: the integer codec for a float, string, boolean or unit, the float  *)
(* codec for a signed or unsigned integer.                                   *)
C10_NoCrossKind ==
    (LitDecoded /\ ~Handles(call.codec, call.cand)) =>
        /\ result.tag = "invalid_type"
        /\ result.unexp.val = AsStr(call.cand)

C10_Witness ==
    /\ LitDecoded
    /\ call.codec = Codec("float", Fin(FALSE, 30))
    /\ call.cand = I64P(3)
    /\ result.tag = "invalid_type"

====
